---- MODULE Spec2Model ----
(***************************************************************************)
(* Signal ingestion and correlation engine of scraper_core.py:             *)
(* the two tables (signals, signal_updates), the per-run working-set cache *)
(* last_open, and the per-message loop of process_messages.                *)
(***************************************************************************)
EXTENDS Integers, Sequences, FiniteSets, TLC

\* ---------------------------------------------------------------- bounds
\* Message ids of the modelled channel history are 1..MaxMsgId.
MaxMsgId == 3
\* process_messages is called at most MaxRuns times.
MaxRuns == 2
\* The list given to process_messages holds at most MaxList messages.
MaxList == 3

\* bump_status is applied to at most MaxEvents events in a row.
MaxEvents == 3

\* ------------------------------------------------------------- constants
\* Python None / a falsy id or price (ids and prices of the model are > 0).
None == 0
\* Python None where the value is otherwise a string.
NoneStr == "None"

CHANNEL_ID == "-1002051092635"

MsgIds == 1..MaxMsgId
Pairs == {"AUSDT", "BUSDT"}

Statuses == {"open", "tp1", "tp2", "tp3", "closed_win", "closed_loss"}
OpenStatuses == {"open", "tp1", "tp2", "tp3"}
Terminal == {"closed_win", "closed_loss"}
TP == <<"tp1", "tp2", "tp3", "tp4">>
UTypes == {"tp1", "tp2", "tp3", "tp4", "sl"}

\* The rank table of bump_status.
order == [s \in Statuses |->
            CASE s = "open" -> 0
              [] s = "tp1" -> 1
              [] s = "tp2" -> 2
              [] s = "tp3" -> 3
              [] OTHER -> 4]

\* order.get(x, 0)
order_get(x) == IF x \in Statuses THEN order[x] ELSE 0

\* ------------------------------------------------------------------ text
\* A message text is modelled by what the regular expressions of the parser
\* see in it:
\*   daily    "Daily Results" occurs
\*   entry    the number after "Entry:" (None: no such pattern)
\*   pair     the first PAIR_RX token, upper-cased (NoneStr: no token)
\*   target   k -> the number after "Target k:" / "TP k:" (None: absent)
\*   hit      k -> "full"  a priced "Target k: n" followed by a hit marker,
\*                 "loose" an unpriced "TP k ... hit marker",
\*                 "none"
\*   sl       [label: a stop-loss label occurs, price: the number after it]
\*   all_hit  an "all targets hit" / "tp4 done" phrase occurs
\*   extra    a "TP n ... hit marker" line with n outside 1..4 occurs
HitForms == <<"none", "none", "none", "none">>

CallText(p, v) ==
    [daily |-> FALSE, entry |-> v, pair |-> p,
     target |-> <<v + 1, v + 2, v + 3, v + 4>>, hit |-> HitForms,
     sl |-> [label |-> TRUE, price |-> v - 1],
     all_hit |-> FALSE, extra |-> FALSE]

UpdateText(p, h, s, a, x) ==
    [daily |-> FALSE, entry |-> None, pair |-> p,
     target |-> [k \in 1..4 |-> IF h[k] = "full" THEN 30 + k ELSE None],
     hit |-> h, sl |-> s, all_hit |-> a, extra |-> x]

NoSl == [label |-> FALSE, price |-> None]
SlLabel == [label |-> TRUE, price |-> None]
SlPriced == [label |-> TRUE, price |-> 39]

\* "Target 2: <price>" followed by a hit marker.
Tp2Full == << "none", "full", "none", "none" >>

\* The update shapes fed to the driver: <<hit forms, sl, all_hit, extra>>.
\* LinkedShapes are those also fed with a reply target or link entities.
LinkedShapes ==
    { <<(<<"full", "none", "none", "none">>), NoSl, FALSE, FALSE>>,
      <<(<<"none", "loose", "none", "none">>), NoSl, FALSE, FALSE>>,
      <<(<<"none", "none", "none", "full">>), SlPriced, FALSE, FALSE>> }

UpdateShapes ==
    { <<(<<"full", "none", "none", "none">>), NoSl, FALSE, FALSE>>,
      <<(<<"none", "loose", "none", "none">>), NoSl, FALSE, FALSE>>,
      <<(<<"none", "none", "full", "none">>), NoSl, FALSE, FALSE>>,
      <<(<<"none", "none", "none", "loose">>), NoSl, FALSE, FALSE>>,
      <<HitForms, SlLabel, FALSE, FALSE>>,
      <<(<<"none", "none", "none", "full">>), SlPriced, FALSE, FALSE>>,
      <<HitForms, SlPriced, TRUE, FALSE>>,
      <<(<<"loose", "full", "none", "none">>), NoSl, FALSE, FALSE>>,
      <<HitForms, NoSl, FALSE, TRUE>> }

OtherTexts ==
    { [CallText("AUSDT", 10) EXCEPT !.daily = TRUE],
      [CallText("AUSDT", 10) EXCEPT !.entry = None, !.sl = [label |-> FALSE, price |-> None]] }

\* Variant: the Entry rule comes before the daily-results rule.
classify_entry_first(t) ==
    IF t.entry # None THEN "call"
    ELSE IF t.daily THEN "other"
    ELSE IF (\E k \in 1..4 : t.hit[k] # "none") \/ t.sl.label \/ t.extra
         THEN "update"
    ELSE "other"

\* classify(text)
classify(t) ==
    IF t.daily THEN "other"
    ELSE IF t.entry # None THEN "call"
    ELSE IF (\E k \in 1..4 : t.hit[k] # "none") \/ t.sl.label \/ t.extra
         THEN "update"
    ELSE "other"

\* parse_call(text): the fields of the signals row the call text carries.
parse_call(t) ==
    [pair |-> t.pair, entry |-> t.entry,
     target1 |-> t.target[1], target2 |-> t.target[2],
     target3 |-> t.target[3], target4 |-> t.target[4],
     stop1 |-> t.sl.price]

Event(u, p) == [utype |-> u, price |-> p]

\* Variant: every form that matches emits its event (a text with the priced
\* form also matches the loose one).
tp_events_every_form(t, k) ==
    IF t.hit[k] = "full" THEN << Event(TP[k], t.target[k]), Event(TP[k], None) >>
    ELSE IF t.hit[k] = "loose" THEN << Event(TP[k], None) >>
    ELSE << >>

\* The event of level k in parse_update's loop (at most one per level).
tp_events(t, k) ==
    IF t.hit[k] = "full" THEN << Event(TP[k], t.target[k]) >>
    ELSE IF t.hit[k] = "loose" THEN << Event(TP[k], None) >>
    ELSE << >>

\* parse_update(text)
parse_update(t) ==
    LET tps == tp_events(t, 1) \o tp_events(t, 2) \o tp_events(t, 3) \o tp_events(t, 4)
        sl  == IF t.sl.label THEN << Event("sl", t.sl.price) >> ELSE << >>
        ev  == tps \o sl
        all == IF t.all_hit /\ ~(\E i \in 1..Len(ev) : ev[i].utype = "tp4")
               THEN << Event("tp4", None) >> ELSE << >>
    IN  [pair |-> t.pair, events |-> ev \o all]

\* -------------------------------------------------------------- messages
\* A link entity: url = it is a MessageEntityTextUrl / MessageEntityUrl,
\* tail = the trailing numeric id its url ends with (None: the url is no
\* permalink).
Link(n) == [url |-> TRUE, tail |-> n]
Bold == [url |-> FALSE, tail |-> None]

\* extract_linked_msg_id(msg), on the entity list
RECURSIVE extract_linked_msg_id(_)
extract_linked_msg_id(es) ==
    IF es = << >> THEN None
    ELSE IF Head(es).url /\ Head(es).tail # None THEN Head(es).tail
    ELSE extract_linked_msg_id(Tail(es))

\* Entity lists of an update message with id i: its links point to earlier
\* messages; Link(i) stands for a url that ends in a number which is not the
\* id of an earlier message.
EntityLists(i) ==
    { << >> }
    \cup { << Link(n) >> : n \in 1..(i - 1) }
    \cup { << Bold, Link(n) >> : n \in 1..(i - 1) }
    \cup { << Link(i), Link(n) >> : n \in 1..(i - 1) }
    \cup { es \in { << Link(a), Link(b) >> : a \in 1..(i - 1), b \in 1..(i - 1) } :
              es[1] # es[2] }

Msg(i, e, r, es, t) ==
    [id |-> i, chat_id |-> CHANNEL_ID, edit_date |-> e,
     reply_to_msg_id |-> r, entities |-> es, text |-> t]

\* A call text as first sent carries entry 10, an edited one entry 20.
CallMessages(i) ==
    { Msg(i, NoneStr, None, << >>, CallText(p, 10)) : p \in Pairs \cup {NoneStr} }
    \cup
    { Msg(i, "edited", None, << >>, CallText(p, 20)) : p \in Pairs \cup {NoneStr} }

UpdateMessages(i) ==
    { Msg(i, NoneStr, None, << >>, UpdateText(p, s[1], s[2], s[3], s[4])) :
        p \in Pairs, s \in UpdateShapes }
    \cup
    { Msg(i, NoneStr, None, es, UpdateText(p, s[1], s[2], s[3], s[4])) :
        es \in EntityLists(i) \ { << >> }, p \in Pairs, s \in LinkedShapes }
    \cup
    UNION { { Msg(i, NoneStr, r, es, UpdateText(p, s[1], s[2], s[3], s[4])) :
                es \in { << >> } \cup { << Link(n) >> : n \in (1..(i - 1)) \ {r} },
                p \in Pairs, s \in LinkedShapes } : r \in 1..(i - 1) }
    \cup
    { Msg(i, NoneStr, None, << >>, UpdateText(NoneStr, s[1], s[2], s[3], s[4])) :
        s \in LinkedShapes }
    \cup
    { Msg(i, NoneStr, r, << >>, UpdateText(NoneStr, Tp2Full, NoSl, FALSE, FALSE)) :
        r \in 1..(i - 1) }

OtherMessages(i) == { Msg(i, NoneStr, None, << >>, t) : t \in OtherTexts }

Messages == UNION { CallMessages(i) \cup UpdateMessages(i) \cup OtherMessages(i) : i \in MsgIds }

NoText == UpdateText(NoneStr, HitForms, NoSl, FALSE, FALSE)
NoMsg == [id |-> None, chat_id |-> CHANNEL_ID]

\* ----------------------------------------------------------------- state
VARIABLES
    signals,          \* table signals: a set of rows
    signal_updates,   \* table signal_updates: a set of rows
    last_open,        \* the working-set cache: pair -> <<sid, call_id, status>>
    run,              \* number of the current call of process_messages
    msgs,             \* the part of the list msgs the loop has not taken yet, where
                      \* the list is kept (<< >> where messages are drawn as taken)
    cursor,           \* id of the last message taken from msgs in this run
    pc,               \* "idle" between messages, "insert" / "bump" in the event loop
    msg,              \* the update message whose events are being applied: [id, chat_id]
    kind,             \* classify(msg.text) (NoneStr between messages)
    upd,              \* parse_update(msg.text)
    sig_row,          \* the resolved owner: [signal_id, status]
    fallback_prices,  \* << >> or the owner's target1..target4
    ev_idx,           \* position in upd.events
    ok,               \* the return value of the last insert_update
    h_replay,         \* history: every event key of msg was stored when msg started
    h_reply,          \* history: the signal_id the reply target of msg belongs to, or None
    h_links,          \* history: the signal_ids the permalinks of msg point to
    last_upsert,      \* history: the upsert_signal call just made: its message id and
                      \* fields, whether the id was stored, and with other field values
    h_how,            \* history: the step of the resolver that gave the owner of msg
    h_skipped,        \* history: the cache entry of the pair of msg had a call id >= msg.id
    h_drop,           \* history: why the last message taken was dropped ("none": it was not)
    h_counted         \* history: the counters of process_messages (cnt_seen, cnt_call,
                      \* cnt_ins_call, cnt_upd, cnt_ins_upd) that the last message
                      \* incremented when it was handled without exception

vars == << signals, signal_updates, last_open, run, msgs, cursor, pc, msg, kind, upd, sig_row,
           fallback_prices, ev_idx, ok, h_replay, h_reply, h_links, last_upsert,
           h_how, h_skipped, h_drop, h_counted >>

NoSig == [signal_id |-> None, status |-> NoneStr]
NoUpd == [pair |-> NoneStr, events |-> << >>]
NoUpsert == [id |-> None, fields |-> parse_call(NoText), existed |-> FALSE, changed |-> FALSE]
EmptyCache == [p \in {} |-> << None, None, NoneStr >>]

Init ==
    /\ signals = {}
    /\ signal_updates = {}
    /\ last_open = EmptyCache
    /\ run = 1
    /\ msgs = << >>
    /\ cursor = 0
    /\ pc = "idle"
    /\ msg = NoMsg
    /\ kind = NoneStr
    /\ upd = NoUpd
    /\ sig_row = NoSig
    /\ fallback_prices = << >>
    /\ ev_idx = 0
    /\ ok = FALSE
    /\ h_replay = FALSE
    /\ h_reply = None
    /\ h_links = {}
    /\ last_upsert = NoUpsert
    /\ h_how = "none"
    /\ h_skipped = FALSE
    /\ h_drop = "none"
    /\ h_counted = {}

\* --------------------------------------------------------------- storage
\* uuid.uuid4(): an identifier no stored row carries.
uuid4(sigs) ==
    CHOOSE n \in 1..(Cardinality(sigs) + 1) :
        /\ \A r \in sigs : r.signal_id # n
        /\ \A k \in 1..(n - 1) : \E r \in sigs : r.signal_id = k

\* SELECT ... FROM signals WHERE channel_id=:c AND call_message_id=:m
Lookup(sigs, c, m) == { r \in sigs : r.channel_id = c /\ r.call_message_id = m }

\* The row upsert_signal builds from the message and the parsed fields.
signal_rec(m, fields, uuid) ==
    [signal_id |-> uuid, channel_id |-> m.chat_id, call_message_id |-> m.id,
     pair |-> fields.pair, entry |-> fields.entry,
     target1 |-> fields.target1, target2 |-> fields.target2,
     target3 |-> fields.target3, target4 |-> fields.target4,
     stop1 |-> fields.stop1, status |-> "open", edit_date |-> NoneStr]

\* Variant: ON CONFLICT (call_message_id) DO NOTHING.
upsert_signal_keep_first(sigs, m, fields, uuid) ==
    IF \E r \in sigs : r.call_message_id = m.id
    THEN sigs
    ELSE sigs \cup {signal_rec(m, fields, uuid)}

\* Variant: the conflict clause also sets signal_id = EXCLUDED.signal_id.
upsert_signal_new_id(sigs, m, fields, uuid) ==
    LET rec == signal_rec(m, fields, uuid)
    IN  IF \E r \in sigs : r.call_message_id = m.id
        THEN { IF r.call_message_id = m.id
               THEN [rec EXCEPT !.status = r.status]
               ELSE r : r \in sigs }
        ELSE sigs \cup {rec}

\* Variant: the conflict clause also sets status = EXCLUDED.status.
upsert_signal_resets_status(sigs, m, fields, uuid) ==
    LET rec == signal_rec(m, fields, uuid)
    IN  IF \E r \in sigs : r.call_message_id = m.id
        THEN { IF r.call_message_id = m.id
               THEN [rec EXCEPT !.signal_id = r.signal_id]
               ELSE r : r \in sigs }
        ELSE sigs \cup {rec}

\* upsert_signal: INSERT ... ON CONFLICT (call_message_id) DO UPDATE SET every
\* column but signal_id and status.
upsert_signal(sigs, m, fields, uuid) ==
    LET rec == signal_rec(m, fields, uuid)
    IN  IF \E r \in sigs : r.call_message_id = m.id
        THEN { IF r.call_message_id = m.id
               THEN [rec EXCEPT !.signal_id = r.signal_id, !.status = r.status]
               ELSE r : r \in sigs }
        ELSE sigs \cup {rec}

\* Variant: upsert_signal returns the identifier it generated, stored or not.
upsert_signal_returns_uuid(sigs, m, uuid) == uuid

\* What upsert_signal returns (RETURNING signal_id / the SELECT after the
\* insert), given the table after the statement.
upsert_signal_returns(sigs, m, uuid) ==
    LET rows == { r \in sigs : r.call_message_id = m.id }
    IN  IF rows = {} THEN None ELSE (CHOOSE r \in rows : TRUE).signal_id

\* Variant: the UPDATE of the edit branch also sets status = 'open'.
edit_call_resets_status(sigs, sid, fields, edit_date) ==
    { IF r.signal_id = sid
      THEN [r EXCEPT !.entry = fields.entry,
                     !.target1 = fields.target1, !.target2 = fields.target2,
                     !.target3 = fields.target3, !.target4 = fields.target4,
                     !.stop1 = fields.stop1, !.edit_date = edit_date,
                     !.status = "open"]
      ELSE r : r \in sigs }

\* The UPDATE of the edit branch: the mutable fields of the row :sid.
edit_call(sigs, sid, fields, edit_date) ==
    { IF r.signal_id = sid
      THEN [r EXCEPT !.entry = fields.entry,
                     !.target1 = fields.target1, !.target2 = fields.target2,
                     !.target3 = fields.target3, !.target4 = fields.target4,
                     !.stop1 = fields.stop1, !.edit_date = edit_date]
      ELSE r : r \in sigs }

update_rec(signal_id, m, utype, price) ==
    [signal_id |-> signal_id, channel_id |-> m.chat_id,
     update_message_id |-> m.id, update_type |-> utype, price |-> price]

\* Variant: a plain INSERT into a table without the primary key.
insert_update_plain(ups, signal_id, m, utype, price) ==
    ups \cup {update_rec(signal_id, m, utype, price)}

\* Variant: ON CONFLICT ... DO UPDATE SET signal_id, price.
insert_update_replace(ups, signal_id, m, utype, price) ==
    LET rec == update_rec(signal_id, m, utype, price)
    IN  { u \in ups : ~(/\ u.channel_id = rec.channel_id
                         /\ u.update_message_id = rec.update_message_id
                         /\ u.update_type = rec.update_type) } \cup {rec}

\* insert_update: INSERT ... ON CONFLICT(channel_id, update_message_id,
\* update_type) DO NOTHING.
insert_update(ups, signal_id, m, utype, price) ==
    LET rec == update_rec(signal_id, m, utype, price)
    IN  IF \E u \in ups : /\ u.channel_id = rec.channel_id
                          /\ u.update_message_id = rec.update_message_id
                          /\ u.update_type = rec.update_type
        THEN ups
        ELSE ups \cup {rec}

\* Variant: sl closes with a loss whatever the current status.
bump_status_sl_always(current_status, utype) ==
    IF utype \in {"tp1", "tp2", "tp3"}
    THEN IF order_get(utype) > order_get(current_status) THEN utype ELSE current_status
    ELSE IF utype = "tp4" THEN "closed_win"
    ELSE IF utype = "sl" THEN "closed_loss"
    ELSE current_status

\* Variant: a tp1..tp3 event replaces the current status whatever its rank.
bump_status_last_wins(current_status, utype) ==
    IF utype \in {"tp1", "tp2", "tp3"} THEN utype
    ELSE IF utype = "tp4" THEN "closed_win"
    ELSE IF utype = "sl" /\ current_status # "closed_win" THEN "closed_loss"
    ELSE current_status

\* bump_status: the status it returns.
bump_status(current_status, utype) ==
    IF utype \in {"tp1", "tp2", "tp3"}
    THEN IF order_get(utype) > order_get(current_status) THEN utype ELSE current_status
    ELSE IF utype = "tp4" THEN "closed_win"
    ELSE IF utype = "sl" /\ current_status # "closed_win" THEN "closed_loss"
    ELSE current_status

\* Variant: the UPDATE of bump_status has no WHERE clause.
bump_status_write_all(sigs, signal_id, current_status, utype) ==
    LET new_status == bump_status(current_status, utype)
    IN  IF new_status # current_status
        THEN { [r EXCEPT !.status = new_status] : r \in sigs }
        ELSE sigs

\* bump_status: its write, UPDATE signals SET status=:s WHERE signal_id=:sid,
\* made only when the status it computed differs from current_status.
bump_status_write(sigs, signal_id, current_status, utype) ==
    LET new_status == bump_status(current_status, utype)
    IN  IF new_status # current_status
        THEN { IF r.signal_id = signal_id THEN [r EXCEPT !.status = new_status] ELSE r :
               r \in sigs }
        ELSE sigs

\* Variant: the query without its status condition.
choose_signal_for_update_any_status(sigs, pair, chat_id, update_msg_id) ==
    LET cand == { r \in sigs : /\ r.channel_id = chat_id
                               /\ r.pair = pair
                               /\ r.call_message_id < update_msg_id }
    IN  { r \in cand : \A q \in cand : q.call_message_id <= r.call_message_id }

\* choose_signal_for_update: the rows it returns (none or one).
choose_signal_for_update(sigs, pair, chat_id, update_msg_id) ==
    LET cand == { r \in sigs : /\ r.channel_id = chat_id
                               /\ r.pair = pair
                               /\ r.call_message_id < update_msg_id
                               /\ r.status \in OpenStatuses }
    IN  { r \in cand : \A q \in cand : q.call_message_id <= r.call_message_id }

\* ------------------------------------------------------------ the cache
Put(cache, p, v) == [q \in (DOMAIN cache) \cup {p} |-> IF q = p THEN v ELSE cache[q]]
\* Variant: the entry of a closed signal is left in the cache.
Pop_keeps_entry(cache, p) == cache

Pop(cache, p) == [q \in (DOMAIN cache) \ {p} |-> cache[q]]

\* -------------------------------------------------------------- resolver
SigRow(r) == [signal_id |-> r.signal_id, status |-> r.status]
One(rows) == CHOOSE r \in rows : TRUE

\* Step 1: the reply link.
by_reply(sigs, m) ==
    IF m.reply_to_msg_id # None THEN Lookup(sigs, m.chat_id, m.reply_to_msg_id) ELSE {}

\* Step 2: the embedded link.
by_link(sigs, m) ==
    LET linked_id == extract_linked_msg_id(m.entities)
    IN  IF linked_id # None THEN Lookup(sigs, m.chat_id, linked_id) ELSE {}

\* Variant: the cache entry of the pair is consulted before the reply link.
resolve_cache_first(sigs, cache, m, u) ==
    LET rr == by_reply(sigs, m)
        lr == by_link(sigs, m)
        ch == choose_signal_for_update(sigs, u.pair, m.chat_id, m.id)
    IN  IF u.pair \in DOMAIN cache /\ cache[u.pair][2] # None /\ cache[u.pair][2] < m.id
        THEN [how |-> "cache",
              sig_row |-> [signal_id |-> cache[u.pair][1], status |-> cache[u.pair][3]],
              cache |-> cache]
        ELSE IF rr # {} THEN [how |-> "reply", sig_row |-> SigRow(One(rr)), cache |-> cache]
        ELSE IF lr # {} THEN [how |-> "link", sig_row |-> SigRow(One(lr)), cache |-> cache]
        ELSE IF ch # {}
             THEN [how |-> "storage", sig_row |-> SigRow(One(ch)),
                   cache |-> Put(cache, u.pair,
                                 << One(ch).signal_id, One(ch).call_message_id, One(ch).status >>)]
        ELSE [how |-> "none", sig_row |-> NoSig, cache |-> cache]

\* Variant: the cache entry of the pair is taken whatever its call id.
resolve_cache_any(sigs, cache, m, u) ==
    LET rr == by_reply(sigs, m)
        lr == by_link(sigs, m)
        ch == choose_signal_for_update(sigs, u.pair, m.chat_id, m.id)
    IN  IF rr # {} THEN [how |-> "reply", sig_row |-> SigRow(One(rr)), cache |-> cache]
        ELSE IF lr # {} THEN [how |-> "link", sig_row |-> SigRow(One(lr)), cache |-> cache]
        ELSE IF u.pair \in DOMAIN cache
             THEN [how |-> "cache",
                   sig_row |-> [signal_id |-> cache[u.pair][1], status |-> cache[u.pair][3]],
                   cache |-> cache]
        ELSE IF ch # {}
             THEN [how |-> "storage", sig_row |-> SigRow(One(ch)),
                   cache |-> Put(cache, u.pair,
                                 << One(ch).signal_id, One(ch).call_message_id, One(ch).status >>)]
        ELSE [how |-> "none", sig_row |-> NoSig, cache |-> cache]

\* The owner resolution of an update message: how it ended ("reply", "link",
\* "cache", "storage", "none", or "error" when cache[1] < msg.id compares
\* None with an int and raises), the owner, and the cache afterwards.
resolve(sigs, cache, m, u) ==
    LET rr == by_reply(sigs, m)
        lr == by_link(sigs, m)
        ch == choose_signal_for_update(sigs, u.pair, m.chat_id, m.id)
    IN  IF rr # {} THEN [how |-> "reply", sig_row |-> SigRow(One(rr)), cache |-> cache]
        ELSE IF lr # {} THEN [how |-> "link", sig_row |-> SigRow(One(lr)), cache |-> cache]
        ELSE IF u.pair \in DOMAIN cache /\ cache[u.pair][2] = None
             THEN [how |-> "error", sig_row |-> NoSig, cache |-> cache]
        ELSE IF u.pair \in DOMAIN cache /\ cache[u.pair][2] < m.id
             THEN [how |-> "cache",
                   sig_row |-> [signal_id |-> cache[u.pair][1], status |-> cache[u.pair][3]],
                   cache |-> cache]
        ELSE IF ch # {}
             THEN [how |-> "storage", sig_row |-> SigRow(One(ch)),
                   cache |-> Put(cache, u.pair,
                                 << One(ch).signal_id, One(ch).call_message_id, One(ch).status >>)]
        ELSE [how |-> "none", sig_row |-> NoSig, cache |-> cache]

\* SELECT target1..target4 FROM signals WHERE signal_id = :sid
fallback_query(sigs, sid) ==
    LET rows == { r \in sigs : r.signal_id = sid }
    IN  IF rows = {} THEN << >>
        ELSE << One(rows).target1, One(rows).target2, One(rows).target3, One(rows).target4 >>

\* The price stored for an event: the owner's target when the text has none.
event_price(e, fp) ==
    IF e.price = None /\ fp # << >> /\ e.utype \in {"tp1", "tp2", "tp3", "tp4"}
    THEN fp[CHOOSE k \in 1..4 : TP[k] = e.utype]
    ELSE e.price

\* ------------------------------------------- one message, start to end
\* The event loop from event i on: every event is stored by insert_update
\* and applied by bump_status with the status of sig_row.
RECURSIVE apply_events(_, _, _, _, _, _, _)
apply_events(sigs, ups, row, fp, m, events, i) ==
    IF i > Len(events) THEN [signals |-> sigs, signal_updates |-> ups]
    ELSE apply_events(bump_status_write(sigs, row.signal_id, row.status, events[i].utype),
                      insert_update(ups, row.signal_id, m, events[i].utype,
                                    event_price(events[i], fp)),
                      row, fp, m, events, i + 1)

\* The tables after the update branch has handled m with the given cache.
update_result(sigs, ups, cache, m) ==
    LET u == parse_update(m.text)
        res == resolve(sigs, cache, m, u)
    IN  IF u.pair = NoneStr \/ u.events = << >> \/ res.how \in {"none", "error"}
        THEN [signals |-> sigs, signal_updates |-> ups]
        ELSE apply_events(sigs, ups, res.sig_row,
                          fallback_query(sigs, res.sig_row.signal_id), m, u.events, 1)

\* The table signals after the edit branch or the call branch has handled m.
call_result(sigs, m) ==
    LET fields == parse_call(m.text)
    IN  IF m.edit_date # NoneStr /\ Lookup(sigs, m.chat_id, m.id) # {}
        THEN edit_call(sigs, One(Lookup(sigs, m.chat_id, m.id)).signal_id, fields, m.edit_date)
        ELSE IF fields.pair # NoneStr /\ fields.entry # None
        THEN upsert_signal(sigs, m, fields, uuid4(sigs))
        ELSE sigs

\* ------------------------------------------------------- process_messages
Idle ==
    /\ msg' = NoMsg
    /\ kind' = NoneStr
    /\ upd' = NoUpd
    /\ sig_row' = NoSig
    /\ fallback_prices' = << >>
    /\ ev_idx' = 0
    /\ ok' = FALSE
    /\ h_replay' = FALSE
    /\ h_reply' = None
    /\ h_links' = {}
    /\ h_how' = "none"
    /\ h_skipped' = FALSE

\* Every (channel, message, type) key of the events of m is stored.
AllStored(ups, m, u) ==
    \A i \in 1..Len(u.events) :
        \E r \in ups : /\ r.channel_id = m.chat_id
                       /\ r.update_message_id = m.id
                       /\ r.update_type = u.events[i].utype

\* The signal a reply to message id n points at (None: n is no stored call).
ReplySignal(sigs, m) ==
    IF \E r \in sigs : r.channel_id = m.chat_id /\ r.call_message_id = m.reply_to_msg_id
    THEN (CHOOSE r \in sigs : r.channel_id = m.chat_id
                              /\ r.call_message_id = m.reply_to_msg_id).signal_id
    ELSE None

\* The signals some permalink entity of m points at.
LinkedSignals(sigs, m) ==
    { r.signal_id : r \in { q \in sigs : /\ q.channel_id = m.chat_id
                                         /\ \E i \in 1..Len(m.entities) :
                                               /\ m.entities[i].url
                                               /\ m.entities[i].tail = q.call_message_id } }

\* The cache holds an entry for the pair of u whose call id is not below
\* the id of m.
CacheSkipped(cache, m, u) ==
    /\ u.pair \in DOMAIN cache
    /\ cache[u.pair][2] # None
    /\ cache[u.pair][2] >= m.id

IsEditCall(m) ==
    /\ m.edit_date # NoneStr
    /\ classify(m.text) = "call"
    /\ Lookup(signals, m.chat_id, m.id) # {}

\* An edited call whose call_message_id is stored: the edit branch.
EditCall(m) ==
    /\ pc = "idle"
    /\ IsEditCall(m)
    /\ signals' = edit_call(signals, One(Lookup(signals, m.chat_id, m.id)).signal_id,
                            parse_call(m.text), m.edit_date)
    /\ cursor' = m.id
    /\ last_upsert' = NoUpsert
    /\ h_drop' = "none"
    /\ h_counted' = {"cnt_seen"}
    /\ Idle
    /\ UNCHANGED << signal_updates, last_open, run, pc >>

\* A call with pair and entry: upsert_signal, then the cache entry of its pair.
Call(m) ==
    /\ pc = "idle"
    /\ ~IsEditCall(m)
    /\ classify(m.text) = "call"
    /\ LET fields == parse_call(m.text)
           uuid   == uuid4(signals)
           after  == upsert_signal(signals, m, fields, uuid)
           sid    == upsert_signal_returns(after, m, uuid)
       IN  /\ fields.pair # NoneStr
           /\ fields.entry # None
           /\ signals' = after
           /\ last_open' = IF sid # None
                           THEN Put(last_open, fields.pair, << sid, m.id, "open" >>)
                           ELSE last_open
           /\ h_counted' = IF sid # None
                           THEN {"cnt_seen", "cnt_call", "cnt_ins_call"}
                           ELSE {"cnt_seen", "cnt_call"}
           /\ last_upsert' =
                  [id |-> m.id, fields |-> fields,
                   existed |-> \E r \in signals : r.call_message_id = m.id,
                   changed |-> \E r \in signals : /\ r.call_message_id = m.id
                                                   /\ \/ r.pair # fields.pair
                                                      \/ r.entry # fields.entry]
    /\ cursor' = m.id
    /\ h_drop' = "none"
    /\ Idle
    /\ UNCHANGED << signal_updates, run, pc >>

\* A call whose text has no pair: nothing is stored.
CallRejected(m) ==
    /\ pc = "idle"
    /\ ~IsEditCall(m)
    /\ classify(m.text) = "call"
    /\ LET fields == parse_call(m.text)
       IN  ~(fields.pair # NoneStr /\ fields.entry # None)
    /\ cursor' = m.id
    /\ last_upsert' = NoUpsert
    /\ h_drop' = "rejected"
    /\ h_counted' = {"cnt_seen"}
    /\ Idle
    /\ UNCHANGED << signals, signal_updates, last_open, run, pc >>

\* A message classified other.
Other(m) ==
    /\ pc = "idle"
    /\ classify(m.text) = "other"
    /\ cursor' = m.id
    /\ last_upsert' = NoUpsert
    /\ h_drop' = "other"
    /\ h_counted' = {"cnt_seen"}
    /\ Idle
    /\ UNCHANGED << signals, signal_updates, last_open, run, pc >>

\* An update without pair or without events.
UpdateEmpty(m) ==
    /\ pc = "idle"
    /\ classify(m.text) = "update"
    /\ LET u == parse_update(m.text)
       IN  u.pair = NoneStr \/ u.events = << >>
    /\ cursor' = m.id
    /\ last_upsert' = NoUpsert
    /\ h_drop' = "empty"
    /\ h_counted' = {"cnt_seen"}
    /\ Idle
    /\ UNCHANGED << signals, signal_updates, last_open, run, pc >>

IsUpdate(m) ==
    /\ pc = "idle"
    /\ classify(m.text) = "update"
    /\ parse_update(m.text).pair # NoneStr
    /\ parse_update(m.text).events # << >>

\* Variant: an update without owner is stored with no signal_id.
UpdateUnresolved_orphan(m) ==
    /\ IsUpdate(m)
    /\ resolve(signals, last_open, m, parse_update(m.text)).how = "none"
    /\ signal_updates' = insert_update(signal_updates, None, m,
                                       parse_update(m.text).events[1].utype,
                                       parse_update(m.text).events[1].price)
    /\ cursor' = m.id
    /\ last_upsert' = NoUpsert
    /\ h_drop' = "unresolved"
    /\ h_counted' = {"cnt_seen", "cnt_upd"}
    /\ Idle
    /\ UNCHANGED << signals, last_open, run, pc >>

\* An update whose owner no step of the resolver finds.
UpdateUnresolved(m) ==
    /\ IsUpdate(m)
    /\ resolve(signals, last_open, m, parse_update(m.text)).how = "none"
    /\ cursor' = m.id
    /\ last_upsert' = NoUpsert
    /\ h_drop' = "unresolved"
    /\ h_counted' = {"cnt_seen", "cnt_upd"}
    /\ Idle
    /\ UNCHANGED << signals, signal_updates, last_open, run, pc >>

\* An update during whose resolution the cache comparison raises: the
\* except Exception clause ends the handling of the message.
UpdateError(m) ==
    /\ IsUpdate(m)
    /\ resolve(signals, last_open, m, parse_update(m.text)).how = "error"
    /\ cursor' = m.id
    /\ last_upsert' = NoUpsert
    /\ h_drop' = "error"
    /\ h_counted' = {}
    /\ Idle
    /\ UNCHANGED << signals, signal_updates, last_open, run, pc >>

\* An update with an owner: the owner, the fallback prices, then the loop.
UpdateResolved(m) ==
    /\ IsUpdate(m)
    /\ LET u == parse_update(m.text)
           res == resolve(signals, last_open, m, u)
       IN  /\ res.how \in {"reply", "link", "cache", "storage"}
           /\ msg' = [id |-> m.id, chat_id |-> m.chat_id]
           /\ kind' = classify(m.text)
           /\ upd' = u
           /\ sig_row' = res.sig_row
           /\ last_open' = res.cache
           /\ fallback_prices' = fallback_query(signals, res.sig_row.signal_id)
           /\ h_replay' = AllStored(signal_updates, m, u)
           /\ h_reply' = ReplySignal(signals, m)
           /\ h_links' = LinkedSignals(signals, m)
           /\ h_how' = res.how
           /\ h_skipped' = CacheSkipped(last_open, m, u)
    /\ h_drop' = "none"
    /\ h_counted' = {"cnt_seen", "cnt_upd"}
    /\ ev_idx' = 1
    /\ ok' = FALSE
    /\ pc' = "insert"
    /\ cursor' = m.id
    /\ last_upsert' = NoUpsert
    /\ UNCHANGED << signals, signal_updates, run >>

\* One event of the loop: the price fallback and insert_update.
InsertUpdate ==
    /\ pc = "insert"
    /\ LET e == upd.events[ev_idx]
       IN  signal_updates' = insert_update(signal_updates, sig_row.signal_id, msg,
                                           e.utype, event_price(e, fallback_prices))
    /\ ok' = TRUE
    /\ pc' = "bump"
    /\ h_reply' = None
    /\ h_links' = {}
    /\ UNCHANGED << msgs, signals, last_open, run, cursor, msg, kind, upd, sig_row, fallback_prices,
                    ev_idx, h_replay, last_upsert, h_how, h_skipped, h_drop, h_counted >>

\* One event of the loop: bump_status with the status of sig_row, the cache
\* entry of the pair, and its removal when the new status is terminal.
BumpStatus ==
    /\ pc = "bump"
    /\ ok
    /\ LET utype == upd.events[ev_idx].utype
           new_status == bump_status(sig_row.status, utype)
           entry == IF upd.pair \in DOMAIN last_open THEN last_open[upd.pair]
                    ELSE << sig_row.signal_id, None, NoneStr >>
           cache == Put(last_open, upd.pair, << entry[1], entry[2], new_status >>)
       IN  /\ signals' = bump_status_write(signals, sig_row.signal_id, sig_row.status, utype)
           /\ last_open' = IF new_status \in Terminal THEN Pop(cache, upd.pair) ELSE cache
    /\ IF ev_idx < Len(upd.events)
       THEN /\ ev_idx' = ev_idx + 1
            /\ pc' = "insert"
            /\ ok' = FALSE
            /\ UNCHANGED << msg, kind, upd, sig_row, fallback_prices, h_replay, h_reply, h_links,
                            h_how, h_skipped >>
       ELSE /\ pc' = "idle"
            /\ Idle
    /\ UNCHANGED << msgs, signal_updates, run, cursor, last_upsert, h_drop, h_counted >>

\* The exceptions the try block can raise and the loop catches: "flood" is
\* FloodWaitError (the loop sleeps e.seconds + 1), "error" any other Exception.
Caught == {"flood", "error"}

\* An exception raised while the message with id i is handled, before its
\* first write: the except clause ends the handling and the loop goes on
\* with the message after it.
Raise(i) ==
    /\ pc = "idle"
    /\ \E ex \in Caught : h_drop' = ex
    /\ h_counted' = {}
    /\ cursor' = i
    /\ last_upsert' = NoUpsert
    /\ Idle
    /\ UNCHANGED << signals, signal_updates, last_open, run, pc >>

\* Variant: no except clause, the exception ends the call of
\* process_messages.
RaiseInLoop_unwinds ==
    /\ pc \in {"insert", "bump"}
    /\ run < MaxRuns
    /\ h_drop' = "error"
    /\ h_counted' = {}
    /\ run' = run + 1
    /\ cursor' = 0
    /\ last_open' = EmptyCache
    /\ pc' = "idle"
    /\ Idle
    /\ UNCHANGED << msgs, signals, signal_updates, last_upsert >>

\* An exception raised by insert_update or by bump_status within the event
\* loop: the events not yet applied are left out.
RaiseInLoop ==
    /\ pc \in {"insert", "bump"}
    /\ \E ex \in Caught : h_drop' = ex
    /\ h_counted' = {}
    /\ pc' = "idle"
    /\ Idle
    /\ UNCHANGED << msgs, signals, signal_updates, last_open, run, cursor, last_upsert >>

\* The process dies within the event loop (no transaction spans the steps);
\* process_messages is then called anew.
Crash ==
    /\ pc \in {"insert", "bump"}
    /\ run < MaxRuns
    /\ run' = run + 1
    /\ cursor' = 0
    /\ last_open' = EmptyCache
    /\ pc' = "idle"
    /\ h_drop' = "none"
    /\ h_counted' = {}
    /\ Idle
    /\ UNCHANGED << msgs, signals, signal_updates, last_upsert >>

\* A new call of process_messages: the cache starts empty.
NewRun ==
    /\ pc = "idle"
    /\ cursor # 0
    /\ run < MaxRuns
    /\ run' = run + 1
    /\ cursor' = 0
    /\ last_open' = EmptyCache
    /\ last_upsert' = NoUpsert
    /\ h_drop' = "none"
    /\ h_counted' = {}
    /\ UNCHANGED << msgs, signals, signal_updates, pc, msg, kind, upd, sig_row, fallback_prices,
                    ev_idx, ok, h_replay, h_reply, h_links, h_how, h_skipped >>

\* The channel keeps the kind of a message: the id of a stored call is not
\* later the id of an update, and a stored update keeps its event types
\* (its text may still change price, pair, reply target and links).
SameMessage(m) ==
    LET stored == { r.update_type : r \in { u \in signal_updates : u.update_message_id = m.id } }
        events == parse_update(m.text).events
    IN  /\ classify(m.text) = "call" => stored = {}
        /\ classify(m.text) = "update" =>
              /\ \A r \in signals : r.call_message_id # m.id
              /\ stored # {} => stored = { events[i].utype : i \in 1..Len(events) }

\* The messages by the kind classify gives them.
Inputs(k) == { m \in Messages : classify(m.text) = k }
CallInputs == Inputs("call")
UpdateInputs == Inputs("update")
OtherInputs == Inputs("other")

HandleCall(m) ==
    \/ EditCall(m)
    \/ Call(m)
    \/ CallRejected(m)

HandleUpdate(m) ==
    \/ UpdateEmpty(m)
    \/ UpdateUnresolved(m)
    \/ UpdateError(m)
    \/ UpdateResolved(m)

\* The callers of process_messages hand it the messages of the channel in
\* increasing id order (iter_messages(..., reverse=True)).
Next ==
    \/ \E m \in CallInputs :
          m.id > cursor /\ SameMessage(m) /\ HandleCall(m) /\ UNCHANGED msgs
    \/ \E m \in UpdateInputs :
          m.id > cursor /\ SameMessage(m) /\ HandleUpdate(m) /\ UNCHANGED msgs
    \/ \E m \in OtherInputs : m.id > cursor /\ Other(m) /\ UNCHANGED msgs
    \/ InsertUpdate
    \/ BumpStatus
    \/ NewRun

Spec == Init /\ [][Next]_vars

\* The same loop with the exceptions it catches and with crashes.
NextFaults ==
    \/ Next
    \/ \E i \in MsgIds : i > cursor /\ Raise(i) /\ UNCHANGED msgs
    \/ RaiseInLoop
    \/ Crash

SpecFaults == Init /\ [][NextFaults]_vars

\* process_messages takes any list: here the messages of a run come newest
\* first (the order of iter_messages without reverse=True), so that a call
\* is handled before an update with a smaller id.
NextNewestFirst ==
    \/ \E m \in CallInputs :
          (cursor = 0 \/ m.id < cursor) /\ SameMessage(m) /\ HandleCall(m) /\ UNCHANGED msgs
    \/ \E m \in UpdateInputs :
          (cursor = 0 \/ m.id < cursor) /\ SameMessage(m) /\ HandleUpdate(m) /\ UNCHANGED msgs
    \/ \E m \in OtherInputs : (cursor = 0 \/ m.id < cursor) /\ Other(m) /\ UNCHANGED msgs
    \/ InsertUpdate
    \/ BumpStatus
    \/ NewRun

SpecNewestFirst == Init /\ [][NextNewestFirst]_vars

\* ------------------------------------------------- cooperative scheduling
\* Variant: the driver also awaits inside the handling of a message.
Suspended_anywhere == TRUE

\* The driver is at one of its awaits: the pacing sleep that ends the
\* handling of a message or the backoff sleep of the FloodWaitError clause.
\* The except Exception clause has no await: after it the driver goes on
\* with the next message without yielding.
Suspended == pc = "idle" /\ h_drop # "error"

\* Another coroutine of the event loop runs while the driver is suspended;
\* here one that closes a stored signal through bump_status.
OtherCoroutine ==
    /\ Suspended
    /\ \E r \in signals :
          /\ bump_status(r.status, "sl") # r.status
          /\ signals' = bump_status_write(signals, r.signal_id, r.status, "sl")
    /\ UNCHANGED << msgs, signal_updates, last_open, run, cursor, pc, msg, kind, upd, sig_row,
                    fallback_prices, ev_idx, ok, h_replay, h_reply, h_links, last_upsert,
                    h_how, h_skipped, h_drop, h_counted >>

\* The loop next to the other coroutine.
NextCoop ==
    \/ Next
    \/ OtherCoroutine

SpecCoop == Init /\ [][NextCoop]_vars

\* ------------------------------------------------------------ the parser
\* The texts given to classify and parse_update: every combination of what
\* their regular expressions can find in a text.
ParseTexts ==
    { [UpdateText(p, h, s, a, x) EXCEPT !.daily = d, !.entry = e] :
        p \in {"AUSDT", NoneStr},
        h \in [1..4 -> {"none", "loose", "full"}],
        s \in {NoSl, SlLabel, SlPriced},
        a \in BOOLEAN, x \in BOOLEAN, d \in BOOLEAN, e \in {None, 10} }

InitParse ==
    /\ signals = {}
    /\ signal_updates = {}
    /\ last_open = EmptyCache
    /\ run = 1
    /\ msgs = << >>
    /\ cursor = 0
    /\ pc = "idle"
    /\ msg \in { Msg(1, NoneStr, None, << >>, t) : t \in ParseTexts }
    /\ kind = NoneStr
    /\ upd = NoUpd
    /\ sig_row = NoSig
    /\ fallback_prices = << >>
    /\ ev_idx = 0
    /\ ok = FALSE
    /\ h_replay = FALSE
    /\ h_reply = None
    /\ h_links = {}
    /\ last_upsert = NoUpsert
    /\ h_how = "none"
    /\ h_skipped = FALSE
    /\ h_drop = "none"
    /\ h_counted = {}

\* kind = classify(txt)
Classify ==
    /\ kind = NoneStr
    /\ kind' = classify(msg.text)
    /\ UNCHANGED << msgs, signals, signal_updates, last_open, run, cursor, pc, msg, upd, sig_row,
                    fallback_prices, ev_idx, ok, h_replay, h_reply, h_links, last_upsert,
                    h_how, h_skipped, h_drop, h_counted >>

\* upd = parse_update(txt)
ParseUpdate ==
    /\ upd = NoUpd
    /\ upd' = parse_update(msg.text)
    /\ UNCHANGED << msgs, signals, signal_updates, last_open, run, cursor, pc, msg, kind, sig_row,
                    fallback_prices, ev_idx, ok, h_replay, h_reply, h_links, last_upsert,
                    h_how, h_skipped, h_drop, h_counted >>

NextParse ==
    \/ Classify
    \/ ParseUpdate

SpecParse == InitParse /\ [][NextParse]_vars

\* ------------------------------------------------- one list, start to end
\* The messages a list is made of: a call, two updates and a text that is
\* neither, under every id.
ListMessages ==
    UNION { { Msg(i, NoneStr, None, << >>, CallText("AUSDT", 10)),
              Msg(i, NoneStr, None, << >>, UpdateText("AUSDT", Tp2Full, NoSl, FALSE, FALSE)),
              Msg(i, NoneStr, None, << >>,
                  UpdateText("AUSDT", << "none", "none", "none", "full" >>, SlPriced, FALSE, FALSE)),
              Msg(i, NoneStr, None, << >>, [CallText("AUSDT", 10) EXCEPT !.daily = TRUE]) } :
            i \in MsgIds }

\* The lists process_messages is called with: any order of ids, no id twice.
Lists ==
    UNION { { l \in [1..n -> ListMessages] :
                \A i \in 1..n : \A j \in 1..n : l[i].id = l[j].id => i = j } :
            n \in 0..MaxList }

InitList ==
    /\ signals = {}
    /\ signal_updates = {}
    /\ last_open = EmptyCache
    /\ run = 1
    /\ msgs \in Lists
    /\ cursor = 0
    /\ pc = "idle"
    /\ msg = NoMsg
    /\ kind = NoneStr
    /\ upd = NoUpd
    /\ sig_row = NoSig
    /\ fallback_prices = << >>
    /\ ev_idx = 0
    /\ ok = FALSE
    /\ h_replay = FALSE
    /\ h_reply = None
    /\ h_links = {}
    /\ last_upsert = NoUpsert
    /\ h_how = "none"
    /\ h_skipped = FALSE
    /\ h_drop = "none"
    /\ h_counted = {}

\* Variant: the loop runs over sorted(msgs, key=id).
NextMessage_lowest_id(list) ==
    list[CHOOSE i \in 1..Len(list) : \A j \in 1..Len(list) : list[i].id <= list[j].id]

\* for msg in msgs: the message the loop takes next.
NextMessage(list) == Head(list)

\* One turn of the for loop: the next message of the list is handled, or an
\* exception raised while it is handled is caught; either way the loop goes
\* on with the message after it.
Take ==
    /\ msgs # << >>
    /\ LET m == NextMessage(msgs)
       IN  \/ HandleCall(m)
           \/ HandleUpdate(m)
           \/ Other(m)
           \/ Raise(m.id)
    /\ msgs' = Tail(msgs)

NextList ==
    \/ Take
    \/ InsertUpdate
    \/ BumpStatus
    \/ RaiseInLoop

\* The event loop resumes the driver after each sleep, and every call the
\* driver makes returns.
SpecList == InitList /\ [][NextList]_vars /\ WF_vars(NextList)

\* ------------------------------------------------ bump_status in a chain
\* A signal as upsert_signal first stores it.
FreshSignal ==
    signal_rec([id |-> 1, chat_id |-> CHANNEL_ID], parse_call(CallText("AUSDT", 10)), 1)

\* bump_status is called for the fresh signal with event after event, each
\* call with the status the call before it returned; upd.events keeps the
\* events applied, sig_row.status the last status returned.
InitFold ==
    /\ signals = {FreshSignal}
    /\ signal_updates = {}
    /\ last_open = EmptyCache
    /\ run = 1
    /\ msgs = << >>
    /\ cursor = 0
    /\ pc = "idle"
    /\ msg = NoMsg
    /\ kind = NoneStr
    /\ upd = [pair |-> FreshSignal.pair, events |-> << >>]
    /\ sig_row = SigRow(FreshSignal)
    /\ fallback_prices = << >>
    /\ ev_idx = 0
    /\ ok = FALSE
    /\ h_replay = FALSE
    /\ h_reply = None
    /\ h_links = {}
    /\ last_upsert = NoUpsert
    /\ h_how = "none"
    /\ h_skipped = FALSE
    /\ h_drop = "none"
    /\ h_counted = {}

ApplyEvent(utype) ==
    /\ Len(upd.events) < MaxEvents
    /\ signals' = bump_status_write(signals, sig_row.signal_id, sig_row.status, utype)
    /\ sig_row' = [sig_row EXCEPT !.status = bump_status(sig_row.status, utype)]
    /\ upd' = [upd EXCEPT !.events = Append(@, Event(utype, None))]
    /\ UNCHANGED << msgs, signal_updates, last_open, run, cursor, pc, msg, kind, fallback_prices,
                    ev_idx, ok, h_replay, h_reply, h_links, last_upsert,
                    h_how, h_skipped, h_drop, h_counted >>

NextFold == \E utype \in UTypes : ApplyEvent(utype)

SpecFold == InitFold /\ [][NextFold]_vars

\* ================================================================ claims
StatusOf(sigs, sid) == { r.status : r \in { q \in sigs : q.signal_id = sid } }

\* The key of the event the loop is at.
CurKeyRows ==
    { u \in signal_updates : /\ u.channel_id = msg.chat_id
                             /\ u.update_message_id = msg.id
                             /\ u.update_type = upd.events[ev_idx].utype }

\* C1: a signal's persisted status never moves to a non-terminal status of
\* lower rank than the one stored.
C1_MonotonicStatus ==
    [][ \A r \in signals : \A q \in signals' :
          q.signal_id = r.signal_id =>
            ~(q.status \in OpenStatuses /\ order[q.status] < order[r.status]) ]_vars

\* C2: an sl event applied to a signal whose persisted status is closed_win
\* (a tp4 event was applied to it) leaves the status closed_win.
C2_ClosedWinSticky ==
    [][ (pc = "bump" /\ upd.events[ev_idx].utype = "sl"
           /\ StatusOf(signals, sig_row.signal_id) = {"closed_win"})
        => StatusOf(signals', sig_row.signal_id) = {"closed_win"} ]_vars

\* C3: once a signal's persisted status is closed_loss, no step changes it.
C3_ClosedLossTerminal ==
    [][ \A r \in signals : r.status = "closed_loss" =>
          StatusOf(signals', r.signal_id) = {"closed_loss"} ]_vars

\* C4: handling an update message all of whose event keys are already
\* stored adds no signal_updates row, changes none, and changes no status.
C4_ReplayIsNoOp ==
    [][ (pc \in {"insert", "bump"} /\ h_replay)
        => (signal_updates' = signal_updates /\ signals' = signals) ]_vars

\* C5: signals holds at most one row per call_message_id, and right after
\* upsert_signal the row of the message carries the fields of that call.
C5_OneRowSecondValues ==
    /\ \A r \in signals : \A q \in signals :
          r.call_message_id = q.call_message_id => r = q
    /\ last_upsert.id # None =>
          \E r \in signals :
             /\ r.call_message_id = last_upsert.id
             /\ r.channel_id = CHANNEL_ID
             /\ r.pair = last_upsert.fields.pair
             /\ r.entry = last_upsert.fields.entry
             /\ r.target1 = last_upsert.fields.target1
             /\ r.target2 = last_upsert.fields.target2
             /\ r.target3 = last_upsert.fields.target3
             /\ r.target4 = last_upsert.fields.target4
             /\ r.stop1 = last_upsert.fields.stop1
             /\ r.edit_date = NoneStr

\* C5 witness: upsert_signal was just called for a stored call_message_id
\* with field values other than the stored ones.
C5_Witness == last_upsert.id # None /\ last_upsert.changed

\* C6: no step changes the signal_id stored for a call_message_id, and the
\* id upsert_signal returns (kept in the cache entry of the pair) is the
\* stored one.
C6_StableSignalId ==
    [][ /\ \A r \in signals : \E q \in signals' :
             q.call_message_id = r.call_message_id /\ q.signal_id = r.signal_id
        /\ last_upsert'.id # None =>
             /\ last_upsert'.fields.pair \in DOMAIN last_open'
             /\ \E q \in signals' :
                  /\ q.call_message_id = last_upsert'.id
                  /\ last_open'[last_upsert'.fields.pair] = << q.signal_id, q.call_message_id, "open" >>
      ]_vars

\* C6 witness: upsert_signal was just called for a call_message_id that was
\* already stored, in a later run, after another signal was stored.
C6_Witness ==
    /\ last_upsert.id # None
    /\ last_upsert.existed
    /\ run > 1
    /\ Cardinality(signals) > 1

\* C7: signal_updates holds at most one row per (channel_id,
\* update_message_id, update_type), and insert_update returns normally with
\* the key of its event stored, also when the key was stored before.
C7_OneRowPerKey ==
    /\ \A u \in signal_updates : \A v \in signal_updates :
          (/\ u.channel_id = v.channel_id
           /\ u.update_message_id = v.update_message_id
           /\ u.update_type = v.update_type) => u = v
    /\ pc = "bump" => (ok /\ Cardinality(CurKeyRows) = 1)

\* C7 witness: insert_update has returned for a key that was already stored.
C7_Witness == pc = "bump" /\ h_replay /\ ok

\* C8: a stored signal_updates row is never changed or removed.
C8_UpdateRowImmutable ==
    [][ \A u \in signal_updates : u \in signal_updates' ]_vars

\* C8 witness: insert_update has run for a stored key with another owner
\* and another price than the stored row has.
C8_Witness ==
    /\ pc = "bump"
    /\ h_replay
    /\ \E u \in CurKeyRows :
          /\ u.signal_id # sig_row.signal_id
          /\ u.price # event_price(upd.events[ev_idx], fallback_prices)

\* C9: when the reply target of an update is the call_message_id of a signal,
\* the resolver returns that signal with its persisted status.
C9_ReplyLinkWins ==
    (pc = "insert" /\ h_reply # None) =>
        /\ sig_row.signal_id = h_reply
        /\ StatusOf(signals, h_reply) = {sig_row.status}

\* C9 witness: an update resolved by its reply link while the cache entry of
\* its pair, the storage fallback and a link entity all name other signals.
C9_Witness ==
    /\ pc = "insert"
    /\ h_reply # None
    /\ upd.pair \in DOMAIN last_open
    /\ last_open[upd.pair][1] # h_reply
    /\ last_open[upd.pair][2] # None
    /\ last_open[upd.pair][2] < msg.id
    /\ \E r \in choose_signal_for_update(signals, upd.pair, msg.chat_id, msg.id) :
          r.signal_id # h_reply

\* C10: when the reply link does not resolve and some link entity is a
\* permalink to a stored call, the resolver returns a signal such a link
\* points at.
C10_EmbeddedLinkResolves ==
    (pc = "insert" /\ h_reply = None /\ h_links # {}) =>
        sig_row.signal_id \in h_links

\* The rows the storage fallback query gives for the update being applied.
StorageRows == choose_signal_for_update(signals, upd.pair, msg.chat_id, msg.id)

\* The resolver has just returned (no event of msg is applied yet).
JustResolved == pc = "insert" /\ ev_idx = 1

\* C11: an update whose pair has a cache entry with a call id not below the
\* update's id is never resolved from the cache; when neither the reply
\* link nor an embedded link resolves it, its owner is the row of the
\* storage fallback query.
C11_CacheNotUsedPastUpdate ==
    (pc \in {"insert", "bump"} /\ h_skipped) =>
        /\ h_how \in {"reply", "link", "storage"}
        /\ (JustResolved /\ h_how = "storage") =>
              sig_row \in { SigRow(r) : r \in StorageRows }

\* C11 witness: an update resolved by the storage fallback while the cache
\* entry of its pair names a call with a greater id.
C11_Witness ==
    /\ JustResolved
    /\ h_skipped
    /\ h_how = "storage"
    /\ h_reply = None
    /\ h_links = {}

\* The stored rows choose_signal_for_update may return for (c, p, u).
Eligible(c, p, u) ==
    { r \in signals : /\ r.channel_id = c
                      /\ r.pair = p
                      /\ r.call_message_id < u
                      /\ r.status \in {"open", "tp1", "tp2", "tp3"} }

\* C12: choose_signal_for_update returns the eligible row (same channel and
\* pair, call id below the update id, status open/tp1/tp2/tp3) with the
\* greatest call id, nothing exactly when no row is eligible, and never a
\* row with status closed_win or closed_loss.
C12_ChooseNewestOpen ==
    \A p \in Pairs : \A c \in {CHANNEL_ID, "-1"} : \A u \in 1..(MaxMsgId + 1) :
        LET got == choose_signal_for_update(signals, p, c, u)
        IN  /\ Cardinality(got) <= 1
            /\ got = {} <=> Eligible(c, p, u) = {}
            /\ \A r \in got :
                  /\ r \in Eligible(c, p, u)
                  /\ \A q \in Eligible(c, p, u) : q.call_message_id <= r.call_message_id
                  /\ r.status \notin {"closed_win", "closed_loss"}

\* C12 witness: the storage fallback has returned an open signal although a
\* closed signal of the same pair has a greater call id below the update's.
C12_Witness ==
    /\ JustResolved
    /\ h_how = "storage"
    /\ \E r \in signals : \E q \in signals :
          /\ r.signal_id = sig_row.signal_id
          /\ q.pair = r.pair
          /\ q.channel_id = r.channel_id
          /\ q.call_message_id > r.call_message_id
          /\ q.call_message_id < msg.id
          /\ q.status \in Terminal

\* C13: with the messages in increasing id order, an owner taken from the
\* cache is the signal, with the persisted status, that the storage
\* fallback query returns for the update at that moment.
C13_CacheEqualsStorage ==
    (JustResolved /\ h_how = "cache" /\ run = 1) =>
        sig_row \in { SigRow(r) : r \in StorageRows }

\* The update messages the loop may take next.
NextUpdates == { m \in UpdateInputs : m.id > cursor /\ SameMessage(m) }

\* C14: in a run with increasing ids, the tables after the next update are
\* the same whether the run goes on with its cache or a new run starts at
\* that message with an empty cache.
C14_ResumeSameOutcome ==
    (pc = "idle" /\ run = 1) =>
        \A m \in NextUpdates :
            update_result(signals, signal_updates, last_open, m)
              = update_result(signals, signal_updates, EmptyCache, m)

\* The tables the event loop ends with when it is not interrupted.
Uninterrupted ==
    IF pc = "bump"
    THEN apply_events(bump_status_write(signals, sig_row.signal_id, sig_row.status,
                                        upd.events[ev_idx].utype),
                      signal_updates, sig_row, fallback_prices, msg, upd.events, ev_idx + 1)
    ELSE apply_events(signals, signal_updates, sig_row, fallback_prices, msg, upd.events, ev_idx)

\* The message being applied, when neither a reply link nor an embedded
\* link gave its owner.
SameUpdate ==
    { m \in UpdateInputs : /\ m.id = msg.id
                           /\ m.reply_to_msg_id = None
                           /\ m.entities = << >>
                           /\ parse_update(m.text) = upd }

\* C15: when the run stops between insert_update and bump_status of an
\* event, or between two events of a message, handling the message again in
\* a new run (empty cache) ends with the tables the uninterrupted loop
\* would have ended with.
C15_CrashRecovery ==
    (/\ pc \in {"insert", "bump"}
     /\ pc = "bump" \/ ev_idx > 1
     /\ h_how \in {"cache", "storage"}) =>
        \A m \in SameUpdate :
            update_result(signals, signal_updates, EmptyCache, m) = Uninterrupted

\* C16: an update without pair symbol whose text is a priced "Target 2" line
\* with a hit marker and which replies to the call of an open signal stores
\* the row (tp2, price) for that signal and sets its status to tp2.
C16_PairlessReplyResolves ==
    pc = "idle" =>
        \A m \in NextUpdates : \A r \in signals :
            (/\ parse_update(m.text) = [pair |-> NoneStr,
                                        events |-> << Event("tp2", m.text.target[2]) >>]
             /\ m.text.target[2] # None
             /\ r.channel_id = m.chat_id
             /\ r.call_message_id = m.reply_to_msg_id
             /\ r.status = "open") =>
                LET out == update_result(signals, signal_updates, last_open, m)
                IN  /\ update_rec(r.signal_id, m, "tp2", m.text.target[2]) \in out.signal_updates
                    /\ StatusOf(out.signals, r.signal_id) = {"tp2"}

\* C17: a call whose text gives no pair or no entry leaves the table signals
\* as it is, also when it is an edited version of a stored call.
C17_MalformedCallNotPersisted ==
    pc = "idle" =>
        \A m \in CallInputs :
            (/\ m.id > cursor
             /\ SameMessage(m)
             /\ parse_call(m.text).pair = NoneStr \/ parse_call(m.text).entry = None) =>
                call_result(signals, m) = signals

\* C18: a message classified other, an update without pair or without
\* events, and an update without owner change neither table nor the cache,
\* and the loop goes on with the next message.
C18_DroppedWithoutEffect ==
    [][ h_drop' \in {"other", "empty", "unresolved"} =>
          /\ signals' = signals
          /\ signal_updates' = signal_updates
          /\ last_open' = last_open
          /\ pc' = "idle"
          /\ run' = run
          /\ cursor' > cursor ]_vars

\* C18 witness: an update was dropped as unresolved while both tables and
\* the cache hold entries.
C18_Witness ==
    /\ h_drop = "unresolved"
    /\ pc = "idle"
    /\ signals # {}
    /\ signal_updates # {}
    /\ last_open # EmptyCache

\* Some message with id i can be taken from the list.
CanTake(i) == ENABLED (\E m \in OtherInputs : m.id = i /\ Other(m))

\* C19: an exception other than FloodWaitError raised while a message is
\* handled ends the handling of that message only: the loop is in the same
\* run, between messages, and every later message can still be taken.
C19_ExceptionContained ==
    /\ [][ h_drop' = "error" => (pc' = "idle" /\ run' = run /\ cursor' >= cursor) ]_vars
    /\ [](h_drop = "error" => (pc = "idle" /\ \A i \in MsgIds : i > cursor => CanTake(i)))

\* C19 witness: bump_status raised after insert_update stored the row of the
\* event, in a run with messages still to come.
C19_Witness ==
    /\ h_drop = "error"
    /\ pc = "idle"
    /\ cursor < MaxMsgId
    /\ \E u \in signal_updates :
          /\ u.update_message_id = cursor
          /\ u.update_type = "tp1"
          /\ StatusOf(signals, u.signal_id) = {"open"}

\* C20: after a FloodWaitError raised while message m was handled (cursor is
\* at m), no message after m is taken in that run before m is handled
\* again.
C20_FloodWaitRetries ==
    [][ (h_drop = "flood" /\ run' = run) => cursor' <= cursor ]_vars

\* C21: an exception raised by insert_update or bump_status (a storage
\* failure) ends the call of process_messages: the run does not go on.
C21_StorageFailurePropagates ==
    [][ (pc \in {"insert", "bump"} /\ h_drop' = "error") => run' # run ]_vars

\* The price a signal records for an event type.
RecordedPrice(r, utype) ==
    CASE utype = "tp1" -> r.target1
      [] utype = "tp2" -> r.target2
      [] utype = "tp3" -> r.target3
      [] utype = "tp4" -> r.target4
      [] utype = "sl" -> r.stop1

\* C22: the row insert_update adds for an event whose text gave no price
\* carries the price the owning signal records for the event type.
C22_PriceFallback ==
    [][ (pc = "insert" /\ pc' = "bump" /\ upd.events[ev_idx].price = None) =>
          \A u \in signal_updates' \ signal_updates :
              \E r \in signals : /\ r.signal_id = u.signal_id
                                 /\ u.price = RecordedPrice(r, u.update_type) ]_vars

\* A step of the edit branch: a message is taken between two messages of a
\* run, it is not dropped, upsert_signal is not called and no event loop
\* starts.
EditStep ==
    /\ pc = "idle"
    /\ pc' = "idle"
    /\ run' = run
    /\ cursor' # cursor
    /\ h_drop' = "none"
    /\ last_upsert'.id = None

\* The fields an edited call text carries.
EditedFields == parse_call(CallText(NoneStr, 20))

\* C23: the edit branch overwrites the mutable fields of the stored signal
\* of the message and nothing else: every signal keeps its signal_id, its
\* call_message_id and its status, no signals row is added, and
\* signal_updates is unchanged.
C23_EditOverwritesMutableOnly ==
    [][ EditStep =>
          /\ signal_updates' = signal_updates
          /\ Cardinality(signals') = Cardinality(signals)
          /\ \E r \in signals : r.call_message_id = cursor'
          /\ \A r \in signals : \E q \in signals' :
                /\ q.signal_id = r.signal_id
                /\ q.call_message_id = r.call_message_id
                /\ q.status = r.status
                /\ r.call_message_id # cursor' => q = r
                /\ r.call_message_id = cursor' =>
                      /\ q.edit_date # NoneStr
                      /\ q.entry = EditedFields.entry
                      /\ q.target1 = EditedFields.target1
                      /\ q.target2 = EditedFields.target2
                      /\ q.target3 = EditedFields.target3
                      /\ q.target4 = EditedFields.target4
                      /\ q.stop1 = EditedFields.stop1 ]_vars

\* C23 witness: the edit branch has just overwritten a signal that is past
\* open and owns update rows.
C23_Witness ==
    /\ pc = "idle"
    /\ h_drop = "none"
    /\ last_upsert.id = None
    /\ \E r \in signals :
          /\ r.call_message_id = cursor
          /\ r.edit_date # NoneStr
          /\ r.entry = EditedFields.entry
          /\ r.status # "open"
          /\ \E u \in signal_updates : u.signal_id = r.signal_id

\* C24: no step removes a signals row; a stored status changes only in a
\* step of bump_status, to the status it computes; no stored status goes
\* back to open; and a row that is new has status open and is the row of
\* the upsert_signal call just made.
C24_StatusOnlyByStateMachine ==
    [][ /\ \A r \in signals : \E q \in signals' :
              /\ q.signal_id = r.signal_id
              /\ q.call_message_id = r.call_message_id
              /\ q.status # r.status =>
                    /\ pc = "bump"
                    /\ r.signal_id = sig_row.signal_id
                    /\ q.status = bump_status(sig_row.status, upd.events[ev_idx].utype)
              /\ q.status = "open" => r.status = "open"
        /\ \A q \in signals' :
              (\A r \in signals : r.signal_id # q.signal_id) =>
                  (q.status = "open" /\ last_upsert'.id = q.call_message_id) ]_vars

\* C24 witness: upsert_signal was just called for a stored call whose
\* signal is past open.
C24_Witness ==
    /\ last_upsert.id # None
    /\ last_upsert.existed
    /\ \E r \in signals : r.call_message_id = last_upsert.id /\ r.status # "open"

\* The transition function folded over the events from i on, each event
\* applied to the status the one before it left.
RECURSIVE FoldStatus(_, _, _)
FoldStatus(status, events, i) ==
    IF i > Len(events) THEN status
    ELSE FoldStatus(bump_status(status, events[i].utype), events, i + 1)

\* C28: for an update with several events whose owner was resolved with its
\* persisted status, the status persisted after the event loop is the fold
\* of the transition function over the events in list order.
C28_EventsFolded ==
    (/\ JustResolved
     /\ Len(upd.events) >= 2
     /\ StatusOf(signals, sig_row.signal_id) = {sig_row.status}) =>
        StatusOf(Uninterrupted.signals, sig_row.signal_id)
          = {FoldStatus(sig_row.status, upd.events, 1)}

\* C29: with increasing ids, an update with pair and events for which the
\* table holds an open signal of its pair with a smaller call id gets an
\* owner (it is neither unresolved nor ended by an exception) and the keys
\* of all its events are stored.
C29_UpdateWithOwnerNotLost ==
    pc = "idle" =>
        \A m \in NextUpdates :
            LET u == parse_update(m.text)
            IN  (/\ u.pair # NoneStr
                 /\ u.events # << >>
                 /\ Eligible(m.chat_id, u.pair, m.id) # {}) =>
                    /\ resolve(signals, last_open, m, u).how \notin {"none", "error"}
                    /\ AllStored(update_result(signals, signal_updates, last_open, m).signal_updates,
                                 m, u)

\* C30: between two messages, every cache entry under a pair p carries the
\* signal_id and the call_message_id of one stored signal of pair p.
C30_CacheEntriesAreSignals ==
    pc = "idle" =>
        \A p \in DOMAIN last_open :
            \E r \in signals : /\ r.pair = p
                               /\ r.signal_id = last_open[p][1]
                               /\ r.call_message_id = last_open[p][2]

\* The (current, event) pairs of tp1..tp3 events of higher rank than current.
Advances ==
    { << "open", "tp1" >>, << "open", "tp2" >>, << "open", "tp3" >>,
      << "tp1", "tp2" >>, << "tp1", "tp3" >>, << "tp2", "tp3" >> }

\* C25: every call of bump_status returns, for a tp1..tp3 event, the event if
\* it ranks above the current status and the current status otherwise, for
\* tp4 closed_win, for sl closed_loss unless the current status is
\* closed_win; the stored status is the returned one, and the table is
\* written exactly when the returned status differs from the current one.
C25_TransitionTable ==
    [][ LET current == sig_row.status
            event == upd'.events[Len(upd'.events)].utype
            next == CASE event \in {"tp1", "tp2", "tp3"} ->
                           IF << current, event >> \in Advances THEN event ELSE current
                      [] event = "tp4" -> "closed_win"
                      [] event = "sl" ->
                           IF current = "closed_win" THEN "closed_win" ELSE "closed_loss"
        IN  /\ sig_row'.status = next
            /\ StatusOf(signals', sig_row.signal_id) = {next}
            /\ signals' # signals <=> next # current ]_vars

\* C25 witness: sl was applied to a signal that tp4 had closed with a win.
C25_Witness ==
    /\ Len(upd.events) = 2
    /\ upd.events[1].utype = "tp4"
    /\ upd.events[2].utype = "sl"
    /\ sig_row.status = "closed_win"
    /\ signals # {}

\* C26: after any sequence of tp1..tp3 events applied in a chain to a fresh
\* signal, the status is the highest-ranked event of the sequence.
C26_HighestEventWins ==
    LET applied == { upd.events[i].utype : i \in 1..Len(upd.events) }
        highest == IF "tp3" \in applied THEN "tp3"
                   ELSE IF "tp2" \in applied THEN "tp2"
                   ELSE IF "tp1" \in applied THEN "tp1"
                   ELSE "open"
    IN  applied \subseteq {"tp1", "tp2", "tp3"} =>
            /\ sig_row.status = highest
            /\ StatusOf(signals, sig_row.signal_id) = {highest}

\* C26 witness: the events tp1, tp3, tp2 were applied in this order.
C26_Witness ==
    /\ Len(upd.events) = 3
    /\ upd.events[1].utype = "tp1"
    /\ upd.events[2].utype = "tp3"
    /\ upd.events[3].utype = "tp2"
    /\ sig_row.status = "tp3"

\* C27: an update dropped as unresolved increments a counter of its own:
\* one besides cnt_seen, which counts every message, and cnt_upd, which
\* counts every update with pair and events, resolved or not.
C27_UnresolvedCounted ==
    [][ h_drop' = "unresolved" => h_counted' \ {"cnt_seen", "cnt_upd"} # {} ]_vars

\* C31: no cache entry carries the status closed_win or closed_loss, and
\* when the handling of an update message ends without exception and
\* bump_status computed a terminal status for one of its events, the cache
\* has no entry for the pair of the update.
C31_NoTerminalCacheEntry ==
    /\ [](\A p \in DOMAIN last_open : last_open[p][3] \notin Terminal)
    /\ [][ (/\ pc = "bump"
            /\ pc' = "idle"
            /\ h_drop' = "none"
            /\ \E i \in 1..Len(upd.events) :
                  bump_status(sig_row.status, upd.events[i].utype) \in Terminal)
           => upd.pair \notin DOMAIN last_open' ]_vars

\* C31 witness: the update just handled to its end closed a signal of its
\* pair with a tp4 or sl row, and the cache holds no entry for the pair.
C31_Witness ==
    /\ pc = "idle"
    /\ h_drop = "none"
    /\ h_counted = {"cnt_seen", "cnt_upd"}
    /\ \E r \in signals :
          /\ r.status \in Terminal
          /\ r.pair \notin DOMAIN last_open
          /\ \E u \in signal_updates : /\ u.signal_id = r.signal_id
                                       /\ u.update_message_id = cursor
                                       /\ u.update_type \in {"tp4", "sl"}

\* C32: between two messages, a signal that owns a stored tp1, tp2 or tp3
\* row has a persisted status of at least the rank of that row's type.
C32_HitReflectedInStatus ==
    pc = "idle" =>
        \A u \in signal_updates : \A r \in signals :
            (u.signal_id = r.signal_id /\ u.update_type \in {"tp1", "tp2", "tp3"})
                => order[r.status] >= order[u.update_type]

\* C33: a signal whose persisted status is tp1, tp2 or tp3 owns a row of
\* that type, one whose status is closed_win owns a tp4 row, and one whose
\* status is closed_loss owns an sl row.
BackingType(status) ==
    CASE status = "closed_win" -> "tp4"
      [] status = "closed_loss" -> "sl"
      [] OTHER -> status

C33_StatusBackedByRows ==
    pc = "idle" =>
        \A r \in signals :
            r.status # "open" =>
                \E u \in signal_updates : /\ u.signal_id = r.signal_id
                                          /\ u.update_type = BackingType(r.status)

\* C34: the steps that handle one update message change no signals row but
\* the one of the resolved owner, of that row nothing but the status, add
\* and remove no signals row, and every signal_updates row they add carries
\* the owner's signal_id.
C34_OnlyOwnerTouched ==
    [][ (pc \in {"insert", "bump"} \/ pc' = "insert") =>
          /\ \A r \in signals :
                \/ r \in signals'
                \/ /\ pc = "bump"
                   /\ r.signal_id = sig_row.signal_id
                   /\ \E s \in Statuses : [r EXCEPT !.status = s] \in signals'
          /\ Cardinality(signals') = Cardinality(signals)
          /\ signal_updates \subseteq signal_updates'
          /\ \A u \in signal_updates' \ signal_updates :
                /\ pc = "insert"
                /\ u.signal_id = sig_row.signal_id
                /\ u.update_message_id = msg.id ]_vars

\* C34 witness: the update just handled advanced its owner and stored a row
\* for it, next to another signal that is still open and owns no row.
C34_Witness ==
    /\ pc = "idle"
    /\ h_drop = "none"
    /\ h_counted = {"cnt_seen", "cnt_upd"}
    /\ \E r \in signals : \E q \in signals :
          /\ r.signal_id # q.signal_id
          /\ r.status # "open"
          /\ \E u \in signal_updates : u.signal_id = r.signal_id /\ u.update_message_id = cursor
          /\ q.status = "open"
          /\ \A u \in signal_updates : u.signal_id # q.signal_id

\* C35: in every state, the signal_id of every signal_updates row is the
\* signal_id of exactly one stored signals row.
C35_UpdateTiedToOneSignal ==
    \A u \in signal_updates :
        Cardinality({ r \in signals : r.signal_id = u.signal_id }) = 1

\* C35 witness: in a later run, the row of the event the loop is at was
\* stored for an owner taken from the cache, and that owner is stored.
C35_Witness ==
    /\ pc = "bump"
    /\ run = 2
    /\ h_how = "cache"
    /\ ~h_replay
    /\ \E u \in CurKeyRows :
          /\ u.signal_id = sig_row.signal_id
          /\ \E r \in signals : r.signal_id = u.signal_id

\* C36: no other coroutine runs inside the handling of one message: from
\* the resolution of an update's owner to its last status write, the table
\* signals changes only by the driver's own bump_status, and the status the
\* resolver read from storage is still the stored one at the first insert.
C36_NoInterleavingInsideMessage ==
    /\ []((pc = "insert" /\ ev_idx = 1 /\ h_how \in {"reply", "link", "storage"})
            => StatusOf(signals, sig_row.signal_id) = {sig_row.status})
    /\ [][ (pc \in {"insert", "bump"}) =>
             (\/ signals' = signals
              \/ /\ pc = "bump"
                 /\ signals' = bump_status_write(signals, sig_row.signal_id, sig_row.status,
                                                 upd.events[ev_idx].utype)) ]_vars

\* C36 witness: the driver is inside its event loop after another coroutine
\* has advanced a signal, other than the owner, that owns no update row.
C36_Witness ==
    /\ pc = "bump"
    /\ \E r \in signals :
          /\ r.signal_id # sig_row.signal_id
          /\ r.status # "open"
          /\ \A u \in signal_updates : u.signal_id # r.signal_id

\* C37: classify takes the first rule that matches: a text with the daily
\* results marker is other whatever else it holds; without the marker, a text
\* with an Entry number is call whatever else it holds; without either, a
\* text with a priced target and hit marker, a stop-loss label or a TP hit
\* line is update; every other text is other.
UpdateShape(t) == (\E k \in 1..4 : t.hit[k] # "none") \/ t.sl.label \/ t.extra

C37_ClassifyRuleOrder ==
    kind # NoneStr =>
        LET t == msg.text
        IN  /\ t.daily => kind = "other"
            /\ (~t.daily /\ t.entry # None) => kind = "call"
            /\ (~t.daily /\ t.entry = None /\ UpdateShape(t)) => kind = "update"
            /\ (~t.daily /\ t.entry = None /\ ~UpdateShape(t)) => kind = "other"

\* C37 witness: a text with the daily-results marker, an Entry number, a
\* stop-loss label and a hit target was classified other.
C37_Witness ==
    /\ kind = "other"
    /\ msg.text.daily
    /\ msg.text.entry # None
    /\ msg.text.sl.label
    /\ msg.text.hit[2] = "full"

\* C38: the event list of parse_update holds no event type twice; a level
\* whose priced form matches gives the priced event, and the all-targets-hit
\* phrase adds (tp4, null) exactly when the levels and the stop loss gave no
\* tp4 event.
C38_NoDuplicateEvents ==
    LET ev == upd.events
        t  == msg.text
    IN  /\ \A i \in 1..Len(ev) : \A j \in 1..Len(ev) : ev[i].utype = ev[j].utype => i = j
        /\ upd # NoUpd =>
              /\ \A k \in 1..4 :
                    t.hit[k] = "full" => \E i \in 1..Len(ev) : ev[i] = Event(TP[k], t.target[k])
              /\ (t.all_hit /\ t.hit[4] = "none") => ev[Len(ev)] = Event("tp4", None)
              /\ Cardinality({ i \in 1..Len(ev) : ev[i].utype = "sl" })
                    = IF t.sl.label THEN 1 ELSE 0

\* C38 witness: a text with a priced Target 4 hit, a loose TP1 hit, a stop
\* loss and the all-targets-hit phrase was parsed into tp1, tp4 and sl.
C38_Witness ==
    /\ msg.text.all_hit
    /\ msg.text.hit = << "loose", "none", "none", "full" >>
    /\ msg.text.sl.label
    /\ upd.events = << Event("tp1", None), Event("tp4", 34), Event("sl", msg.text.sl.price) >>

\* C39: process_messages finishes on every list and under every pattern of
\* caught exceptions: it reaches the end of the list between two messages;
\* and it takes the messages in list order, one per turn, never one twice.
C39_FinishesInListOrder ==
    /\ <>(pc = "idle" /\ msgs = << >>)
    /\ [][ (msgs' # msgs) =>
             (/\ msgs # << >>
              /\ msgs' = Tail(msgs)
              /\ cursor' = Head(msgs).id) ]_vars

\* C39 witness: the list is finished, its last message had a lower id than
\* an update handled before it, and an exception was caught on the way.
C39_Witness ==
    /\ pc = "idle"
    /\ msgs = << >>
    /\ \E u \in signal_updates : u.update_message_id > cursor
    /\ h_drop \in Caught

====
